---------------------------- MODULE Spec2Model ----------------------------
(***************************************************************************)
(* A model of kobeck, the gateway that serves the Kobo/Pocket read-it-later *)
(* protocol on top of a Readeck server.                                     *)
(*                                                                         *)
(*   src/src/kobeck/__init__.py   the four request handlers                 *)
(*   src/src/kobeck/readeck.py    the Readeck client                        *)
(*                                                                         *)
(* Every handler is stateless between requests, so each one is modelled as  *)
(* its own state machine over its own variables: SpecGet (get), SpecSend    *)
(* (send), SpecDownload (download up to the fetched article, with the       *)
(* Readeck.bookmarks generator it drives), SpecRewrite (the image rewriting *)
(* that ends download) and SpecConvert (convert_image).  An await on the    *)
(* backend is split in two steps: the call is issued, then it is answered.  *)
(***************************************************************************)
EXTENDS Integers, Sequences, FiniteSets, TLC

VARIABLES
    \* ---- get ----
    delta,          \* backend: the sync delta the server holds for `since`
    get_req,        \* GetRequest: [offset, count]
    get_pc,         \* "sync" | "loop" | "details" | "done" | "failed"
    bsyncs,         \* the list bookmarks_sync returned
    pos,            \* how many windowed entries the for loop has consumed
    result,         \* the response under construction: [status, list, total]
    detail_calls,   \* ids bookmark_details was called with, in call order
    \* ---- send ----
    actions,        \* SendRequest.actions
    send_pc,        \* "loop" | "awaiting" | "done" | "failed"
    idx,            \* 1-based index of the action the for loop is at
    action_results, \* the list send builds
    calls,          \* backend calls issued so far, in issue order: [idx, call,
                    \* state "pending" | "answered" | "transport error", status]
    send_response,  \* what send returned (NoValue until it returns)
    \* ---- download: resolution, and Readeck.bookmarks ----
    host,           \* req.url.host, as its list of labels
    requested_path, \* the part of req.url that varies, as URL tokens
    dl_pc,          \* "resolve" | "found" | "article" | "rewrite" | "notfound" |
                    \* "failed" | "done"
    site_i,         \* 1-based index into sites_to_try of the candidate probed
    bookmark_found, \* the matching bookmark, or NoBookmark
    bm_pc,          \* generator: "idle" | "request" | "awaiting" | "yield"
    next_url,       \* generator local next_url
    page,           \* r.json() of the current response
    headers,        \* the Link header of the current response: [present, links]
    k,              \* 1-based index of the next entry of page to yield
    n_pages,        \* pages requested by the running generator call
    yielded,        \* entries of the current page already yielded
    probed,         \* sites whose listing has been started, in order
    last_end,       \* how the last finished generator call ended
    article_calls,  \* ids bookmark_article was called with
    \* ---- download: image rewriting ----
    convert_to_jpeg,\* settings.convert_to_jpeg
    article,        \* the article document as fetched
    soup,           \* the parsed document being rewritten, by original position
    imgs,           \* soup.find_all("img"): the image elements, by position
    img_i,          \* enumerate index of the next image element
    images,         \* the images dict
    dl_response,    \* what download returned (NoValue until it returns)
    \* ---- convert_image ----
    cv_url,         \* the url query parameter
    cv_pc,          \* "fetch" | "status" | "decode" | "mode" | "encode" | "except" |
                    \* "done" | "raised"
    cv_fetch,       \* the HTTP response of the source fetch
    cv_img,         \* the decoded image
    cv_error,       \* the exception raised inside the try block, if any
    cv_response     \* the Response returned (NoValue until it returns)

getVars  == <<delta, get_req, get_pc, bsyncs, pos, result, detail_calls>>
sendVars == <<actions, send_pc, idx, action_results, calls, send_response>>
dlVars   == <<host, requested_path, dl_pc, site_i, bookmark_found, bm_pc,
              next_url, page, headers, k, n_pages, yielded, probed, last_end,
              article_calls>>
rwVars   == <<convert_to_jpeg, article, soup, imgs, img_i, images, dl_response>>
cvVars   == <<cv_url, cv_pc, cv_fetch, cv_img, cv_error, cv_response>>
vars     == <<getVars, sendVars, dlVars, rwVars, cvVars>>

NoValue == "None"

\* bookmark_found = None, and the headers before any response.
NoBookmark == [id |-> <<0, 0, 0>>, url |-> <<>>]

NoHeaders == [present |-> FALSE, links |-> <<>>]

Min(a, b) == IF a <= b THEN a ELSE b

Range(s) == {s[i] : i \in 1..Len(s)}

SeqsUpTo(S, n) == UNION {[1..m -> S] : m \in 0..n}

\* A Python dict, which keeps its keys in first-insertion order, as the
\* sequence of its [key, value] pairs.
DictKeys(d) == [i \in 1..Len(d) |-> d[i].key]

DictHas(d, key) == \E i \in 1..Len(d) : d[i].key = key

DictGet(d, key) == d[CHOOSE i \in 1..Len(d) : d[i].key = key].value

\* d[key] = value: a new key goes last, an existing key keeps its place.
DictSet(d, key, value) ==
    IF DictHas(d, key)
    THEN [i \in 1..Len(d) |->
            IF d[i].key = key THEN [key |-> key, value |-> value] ELSE d[i]]
    ELSE Append(d, [key |-> key, value |-> value])

(***************************************************************************)
(* The idle values of each handler's variables, for the specifications of   *)
(* the other handlers.                                                      *)
(***************************************************************************)
GetIdle ==
    /\ delta = <<>> /\ get_req = [offset |-> 0, count |-> 0]
    /\ get_pc = "idle" /\ bsyncs = <<>> /\ pos = 0
    /\ result = NoValue /\ detail_calls = <<>>

SendIdle ==
    /\ actions = <<>> /\ send_pc = "idle" /\ idx = 0
    /\ action_results = <<>> /\ calls = <<>> /\ send_response = NoValue

DlIdle ==
    /\ host = <<>> /\ requested_path = <<>> /\ dl_pc = "idle" /\ site_i = 0
    /\ bookmark_found = NoBookmark /\ bm_pc = "idle" /\ next_url = NoValue
    /\ page = <<>> /\ headers = NoHeaders /\ k = 0 /\ n_pages = 0
    /\ yielded = <<>> /\ probed = <<>> /\ last_end = NoValue
    /\ article_calls = <<>>

RwIdle ==
    /\ convert_to_jpeg = TRUE /\ article = <<>> /\ soup = <<>> /\ imgs = <<>>
    /\ img_i = 0 /\ images = <<>> /\ dl_response = NoValue

CvIdle ==
    /\ cv_url = NoValue /\ cv_pc = "idle" /\ cv_fetch = NoValue
    /\ cv_img = NoValue /\ cv_error = NoValue /\ cv_response = NoValue

(***************************************************************************)
(*                                  get                                     *)
(***************************************************************************)
MaxDelta == 3
MaxOffset == 3
MaxCount == 3

BookmarkIds == {"b1", "b2"}

\* BookmarkSync: id and type (time plays no part in get).
BookmarkSync == [id : BookmarkIds, type : {"update", "delete"}]

\* What the handler reads of a Bookmark: resources.image is a source or None.
\* The other fields are fixed per id; timestamps are in milliseconds.
ImageSrcs == {NoValue, "http://img/top.png"}

Bookmark(id, image) ==
    [id |-> id, title |-> "title", url |-> "http://example.com/a",
     description |-> "excerpt", authors |-> <<"ann", "bob">>,
     labels |-> <<"news">>, created |-> 1500, updated |-> 2999,
     word_count |-> 120, image |-> image]

\* int(dt.timestamp()): truncation to whole seconds.
Timestamp(ms) == ms \div 1000

\* itertools.islice(s, start, stop) over a list.
IsliceOffByOne(s, start, stop) == SubSeq(s, start + 1, Min(stop + 1, Len(s)))

Islice(s, start, stop) == SubSeq(s, start + 1, Min(stop, Len(s)))

Window == Islice(bsyncs, get_req.offset, get_req.offset + get_req.count)

DeletionItemWithTitle(bsync) ==
    [item_id |-> bsync.id, status |-> "2", given_title |-> ""]

DeletionItem(bsync) == [item_id |-> bsync.id, status |-> "2"]

OptionalFields(bookmark) ==
    IF bookmark.image # NoValue
    THEN [top_image_url |-> bookmark.image]
    ELSE [x \in {} |-> x]

FullItem(bsync, bookmark) ==
    [authors |-> [a \in Range(bookmark.authors) |-> [author_id |-> a, name |-> a]],
     excerpt |-> bookmark.description,
     favorite |-> "0",
     given_title |-> bookmark.title,
     given_url |-> bookmark.url,
     has_image |-> IF bookmark.image # NoValue THEN "1" ELSE "0",
     has_video |-> "0",
     image |-> IF bookmark.image # NoValue
               THEN [src |-> bookmark.image] ELSE [x \in {} |-> x],
     images |-> IF bookmark.image # NoValue
                THEN [i \in {"1"} |-> [image_id |-> "1", item_id |-> "1",
                                       src |-> bookmark.image]]
                ELSE [x \in {} |-> x],
     is_article |-> "1",
     item_id |-> bookmark.id,
     resolved_id |-> bookmark.id,
     resolved_title |-> bookmark.title,
     resolved_url |-> bookmark.url,
     status |-> "0",
     tags |-> [lb \in Range(bookmark.labels) |-> [item_id |-> bsync.id, tag |-> lb]],
     time_added |-> Timestamp(bookmark.created),
     time_read |-> 0,
     time_updated |-> Timestamp(bookmark.updated),
     videos |-> <<>>,
     word_count |-> bookmark.word_count]
    @@ OptionalFields(bookmark)

InitGet ==
    /\ delta \in SeqsUpTo(BookmarkSync, MaxDelta)
    /\ get_req \in [offset : 0..MaxOffset, count : 0..MaxCount]
    /\ get_pc = "sync"
    /\ bsyncs = <<>>
    /\ pos = 0
    /\ result = NoValue
    /\ detail_calls = <<>>
    /\ SendIdle /\ DlIdle /\ RwIdle /\ CvIdle

\* bookmarks_sync answered 2xx: the result is set up and the loop starts.
GetSyncOk ==
    /\ get_pc = "sync"
    /\ bsyncs' = delta
    /\ result' = [status |-> 1, list |-> <<>>, total |-> Len(delta)]
    /\ get_pc' = "loop"
    /\ UNCHANGED <<delta, get_req, pos, detail_calls>>
    /\ UNCHANGED <<sendVars, dlVars, rwVars, cvVars>>

\* bookmarks_sync raised (raise_for_status, transport): the request fails.
GetSyncFail ==
    /\ get_pc = "sync"
    /\ get_pc' = "failed"
    /\ UNCHANGED <<delta, get_req, bsyncs, pos, result, detail_calls>>
    /\ UNCHANGED <<sendVars, dlVars, rwVars, cvVars>>

\* Loop body, bsync.type == "delete".
GetDelete ==
    /\ get_pc = "loop"
    /\ pos < Len(Window)
    /\ LET bsync == Window[pos + 1] IN
         /\ bsync.type = "delete"
         /\ result' = [result EXCEPT
                         !.list = DictSet(@, bsync.id, DeletionItem(bsync))]
    /\ pos' = pos + 1
    /\ UNCHANGED <<delta, get_req, get_pc, bsyncs, detail_calls>>
    /\ UNCHANGED <<sendVars, dlVars, rwVars, cvVars>>

\* Loop body, else branch: bookmark_details is called and awaited.
GetDetailsCall ==
    /\ get_pc = "loop"
    /\ pos < Len(Window)
    /\ LET bsync == Window[pos + 1] IN
         /\ bsync.type # "delete"
         /\ detail_calls' = Append(detail_calls, bsync.id)
    /\ get_pc' = "details"
    /\ UNCHANGED <<delta, get_req, bsyncs, pos, result>>
    /\ UNCHANGED <<sendVars, dlVars, rwVars, cvVars>>

\* bookmark_details answered: the full item is stored under bsync.id.
GetDetailsOk ==
    /\ get_pc = "details"
    /\ \E image \in ImageSrcs :
         LET bsync == Window[pos + 1]
             bookmark == Bookmark(bsync.id, image) IN
         result' = [result EXCEPT
                      !.list = DictSet(@, bsync.id, FullItem(bsync, bookmark))]
    /\ pos' = pos + 1
    /\ get_pc' = "loop"
    /\ UNCHANGED <<delta, get_req, bsyncs, detail_calls>>
    /\ UNCHANGED <<sendVars, dlVars, rwVars, cvVars>>

\* bookmark_details raised: the request fails, nothing is returned.
GetDetailsFail ==
    /\ get_pc = "details"
    /\ get_pc' = "failed"
    /\ UNCHANGED <<delta, get_req, bsyncs, pos, result, detail_calls>>
    /\ UNCHANGED <<sendVars, dlVars, rwVars, cvVars>>

\* The window is exhausted: return result.
GetReturn ==
    /\ get_pc = "loop"
    /\ pos >= Len(Window)
    /\ get_pc' = "done"
    /\ UNCHANGED <<delta, get_req, bsyncs, pos, result, detail_calls>>
    /\ UNCHANGED <<sendVars, dlVars, rwVars, cvVars>>

NextGet ==
    \/ GetSyncOk
    \/ GetSyncFail
    \/ GetDelete
    \/ GetDetailsCall
    \/ GetDetailsOk
    \/ GetDetailsFail
    \/ GetReturn

SpecGet == InitGet /\ [][NextGet]_vars

(***************************************************************************)
(* Claims about get.                                                        *)
(***************************************************************************)
\* The window the claims speak of, taken from the backend's delta itself:
\* positions [offset, offset+count) of the full delta, 0-based.
ExpectedCount ==
    IF get_req.offset >= Len(delta)
    THEN 0
    ELSE Min(get_req.count, Len(delta) - get_req.offset)

ExpectedWindow == [j \in 1..ExpectedCount |-> delta[get_req.offset + j]]

\* The ids of s, each once, in order of first occurrence.
RECURSIVE FirstOccurrences(_)
FirstOccurrences(s) ==
    IF s = <<>> THEN <<>>
    ELSE LET front == FirstOccurrences(SubSeq(s, 1, Len(s) - 1))
             id == s[Len(s)].id IN
         IF id \in Range(front) THEN front ELSE Append(front, id)

\* The last entry of s that carries id.
LastWithId(s, id) ==
    s[CHOOSE i \in 1..Len(s) :
        /\ s[i].id = id
        /\ \A j \in (i + 1)..Len(s) : s[j].id # id]

DistinctIds(s) == \A i, j \in 1..Len(s) : i # j => s[i].id # s[j].id

\* item is what the loop body builds from entry.
BuiltFrom(item, entry) ==
    IF entry.type = "delete"
    THEN item = [item_id |-> entry.id, status |-> "2"]
    ELSE /\ item.status = "0"
         /\ item.item_id = entry.id
         /\ \E image \in ImageSrcs :
              item = FullItem(entry, Bookmark(entry.id, image))

\* C1 as stated: the list returned by get holds exactly min(count,
\* total - offset) items (0 when offset >= total), the j-th of them built
\* from the delta entry at position offset + j, in original order.
C1_AsStated ==
    get_pc = "done" =>
        /\ Len(result.list) = ExpectedCount
        /\ \A j \in 1..ExpectedCount :
             /\ result.list[j].key = ExpectedWindow[j].id
             /\ BuiltFrom(result.list[j].value, ExpectedWindow[j])

\* C1, amended: the list returned by get is keyed by bookmark id.  It holds
\* one item per distinct id among the delta entries at positions
\* [offset, offset+count), in order of first occurrence, each built from the
\* last windowed entry with that id, and nothing from outside that window;
\* total is the length of the full delta.  When the windowed ids are
\* pairwise distinct that is exactly min(count, total - offset) items (0 when
\* offset >= total), item j built from the entry at position offset + j.
C1_Windowing ==
    get_pc = "done" =>
        /\ result.total = Len(delta)
        /\ DictKeys(result.list) = FirstOccurrences(ExpectedWindow)
        /\ \A i \in 1..Len(result.list) :
             BuiltFrom(result.list[i].value,
                       LastWithId(ExpectedWindow, result.list[i].key))
        /\ DistinctIds(ExpectedWindow) =>
             /\ Len(result.list) = ExpectedCount
             /\ \A j \in 1..ExpectedCount :
                  /\ result.list[j].key = ExpectedWindow[j].id
                  /\ BuiltFrom(result.list[j].value, ExpectedWindow[j])

\* C1's case: a window strictly inside a longer delta, with distinct ids,
\* has been returned.
C1_Witness ==
    /\ get_pc = "done"
    /\ Len(delta) = 3 /\ get_req.offset = 1 /\ get_req.count = 1
    /\ Len(result.list) = 1
    /\ result.list[1].key = delta[2].id
    /\ delta[1].id # delta[2].id

FullFields ==
    {"authors", "excerpt", "favorite", "given_title", "given_url", "has_image",
     "has_video", "image", "images", "is_article", "item_id", "resolved_id",
     "resolved_title", "resolved_url", "status", "tags", "time_added",
     "time_read", "time_updated", "videos", "word_count"}

DeletionShape(item) ==
    /\ DOMAIN item = {"item_id", "status"}
    /\ item.status = "2"

FullShape(item) ==
    /\ FullFields \subseteq DOMAIN item
    /\ DOMAIN item \subseteq FullFields \cup {"top_image_url"}
    /\ item.status = "0"

\* The windowed entries the loop has finished with, and those it has started.
Finished == SubSeq(Window, 1, pos)

Started == SubSeq(Window, 1, IF get_pc = "details" THEN pos + 1 ELSE pos)

UpdateIds(s) == LET sel == SelectSeq(s, LAMBDA e : e.type # "delete")
                IN  [i \in 1..Len(sel) |-> sel[i].id]

\* C2: a windowed delete entry produces an item made of item_id and
\* status "2" only, and no bookmark_details call (the detail calls are
\* exactly those of the windowed update entries, in order); a windowed
\* update entry produces the full shape with status "0"; every item of the
\* list has exactly one of the two shapes.
C2_Shapes ==
    get_pc \in {"loop", "details", "done"} =>
        /\ detail_calls = UpdateIds(Started)
        /\ \A i \in 1..Len(result.list) :
             LET item == result.list[i].value
                 entry == LastWithId(Finished, result.list[i].key) IN
             /\ DeletionShape(item) # FullShape(item)
             /\ entry.type = "delete" => DeletionShape(item)
             /\ entry.type = "update" => FullShape(item)
        /\ \A j \in 1..Len(Finished) : DictHas(result.list, Finished[j].id)

\* C2's case: a returned list holding a deletion item and a full item, with
\* one detail call made for the two windowed entries.
C2_Witness ==
    /\ get_pc = "done"
    /\ Len(result.list) = 2
    /\ \E i, j \in 1..2 :
         /\ DeletionShape(result.list[i].value)
         /\ FullShape(result.list[j].value)
    /\ Len(detail_calls) = 1

(***************************************************************************)
(*                                  send                                    *)
(***************************************************************************)
MaxActions == 3

UpdateKinds == {"archive", "readd", "favorite", "unfavorite", "delete"}

\* ExistingItemAction carries item_id, NewItemAction carries url.  An add
\* comes as a NewItemAction and the five update kinds as ExistingItemAction
\* (the protocol's two shapes); "bogus" stands for any other action string.
ExistingItemAction == [action : UpdateKinds \cup {"bogus"}, item_id : {"5"}]

NewItemAction == [action : {"add"}, url : {"http://example.com/new"}]

ActionRequest == ExistingItemAction \cup NewItemAction

\* The answers of the backend to one call; a transport error is its own step.
Statuses == {200, 404, 500}

IsSuccess(status) == status \in 200..299

\* `case _` issues no backend call.
NoCall == [op |-> "none"]

\* The backend call of one match arm.
ActionCallReaddArchives(action) ==
    CASE action.action \in {"archive", "readd"} ->
           [op |-> "update", target |-> action.item_id,
            fields |-> [is_archived |-> TRUE]]
      [] action.action = "favorite" ->
           [op |-> "update", target |-> action.item_id,
            fields |-> [is_marked |-> TRUE]]
      [] action.action = "unfavorite" ->
           [op |-> "update", target |-> action.item_id,
            fields |-> [is_marked |-> FALSE]]
      [] action.action = "delete" ->
           [op |-> "update", target |-> action.item_id,
            fields |-> [is_deleted |-> TRUE]]
      [] action.action = "add" ->
           [op |-> "create", target |-> action.url,
            fields |-> [url |-> action.url]]
      [] OTHER -> NoCall

ActionCall(action) ==
    CASE action.action = "archive" ->
           [op |-> "update", target |-> action.item_id,
            fields |-> [is_archived |-> TRUE]]
      [] action.action = "readd" ->
           [op |-> "update", target |-> action.item_id,
            fields |-> [is_archived |-> FALSE]]
      [] action.action = "favorite" ->
           [op |-> "update", target |-> action.item_id,
            fields |-> [is_marked |-> TRUE]]
      [] action.action = "unfavorite" ->
           [op |-> "update", target |-> action.item_id,
            fields |-> [is_marked |-> FALSE]]
      [] action.action = "delete" ->
           [op |-> "update", target |-> action.item_id,
            fields |-> [is_deleted |-> TRUE]]
      [] action.action = "add" ->
           [op |-> "create", target |-> action.url,
            fields |-> [url |-> action.url]]
      [] OTHER -> NoCall

\* Readeck.bookmark_update returns (rather than raises) on this status.
BookmarkUpdateReturnsStrict(status) == IsSuccess(status)

BookmarkUpdateReturns(status) == status = 404 \/ IsSuccess(status)

\* Readeck.bookmark_create returns (rather than raises) on this status.
BookmarkCreateReturnsOnMissing(status) == status = 404 \/ IsSuccess(status)

BookmarkCreateReturns(status) == IsSuccess(status)

CallReturns(call, status) ==
    IF call.op = "update"
    THEN BookmarkUpdateReturns(status)
    ELSE BookmarkCreateReturns(status)

\* all(action_results)
AnyResult(results) == \E i \in 1..Len(results) : results[i]

AllResults(results) == \A i \in 1..Len(results) : results[i]

InitSend ==
    /\ actions \in SeqsUpTo(ActionRequest, MaxActions)
    /\ send_pc = "loop"
    /\ idx = 1
    /\ action_results = <<>>
    /\ calls = <<>>
    /\ send_response = NoValue
    /\ GetIdle /\ DlIdle /\ RwIdle /\ CvIdle

\* A recognized action: its backend call is issued and awaited.
SendIssue ==
    /\ send_pc = "loop"
    /\ idx <= Len(actions)
    /\ ActionCall(actions[idx]).op # "none"
    /\ calls' = Append(calls, [idx |-> idx, call |-> ActionCall(actions[idx]),
                               state |-> "pending", status |-> 0])
    /\ send_pc' = "awaiting"
    /\ UNCHANGED <<actions, idx, action_results, send_response>>
    /\ UNCHANGED <<getVars, dlVars, rwVars, cvVars>>

\* The backend answers the awaited call with an HTTP status.
SendAnswer ==
    /\ send_pc = "awaiting"
    /\ \E status \in Statuses :
         LET c == calls[Len(calls)] IN
         /\ calls' = [calls EXCEPT ![Len(calls)].state = "answered",
                                    ![Len(calls)].status = status]
         /\ IF CallReturns(c.call, status)
            THEN /\ action_results' = Append(action_results, TRUE)
                 /\ idx' = idx + 1
                 /\ send_pc' = "loop"
            ELSE /\ send_pc' = "failed"
                 /\ UNCHANGED <<action_results, idx>>
    /\ UNCHANGED <<actions, send_response>>
    /\ UNCHANGED <<getVars, dlVars, rwVars, cvVars>>

\* The awaited call raises a transport error.
SendTransportError ==
    /\ send_pc = "awaiting"
    /\ calls' = [calls EXCEPT ![Len(calls)].state = "transport error"]
    /\ send_pc' = "failed"
    /\ UNCHANGED <<actions, idx, action_results, send_response>>
    /\ UNCHANGED <<getVars, dlVars, rwVars, cvVars>>

\* case _: no backend call, the result is False.
SendUnknown ==
    /\ send_pc = "loop"
    /\ idx <= Len(actions)
    /\ ActionCall(actions[idx]).op = "none"
    /\ action_results' = Append(action_results, FALSE)
    /\ idx' = idx + 1
    /\ UNCHANGED <<actions, send_pc, calls, send_response>>
    /\ UNCHANGED <<getVars, dlVars, rwVars, cvVars>>

\* The loop is over: return status and action_results.
SendReturn ==
    /\ send_pc = "loop"
    /\ idx > Len(actions)
    /\ send_response' = [status |-> AllResults(action_results),
                         action_results |-> action_results]
    /\ send_pc' = "done"
    /\ UNCHANGED <<actions, idx, action_results, calls>>
    /\ UNCHANGED <<getVars, dlVars, rwVars, cvVars>>

NextSend ==
    \/ SendIssue
    \/ SendAnswer
    \/ SendTransportError
    \/ SendUnknown
    \/ SendReturn

SpecSend == InitSend /\ [][NextSend]_vars

(***************************************************************************)
(* Claims about send.                                                       *)
(***************************************************************************)
RecognizedKinds == {"archive", "readd", "favorite", "unfavorite", "delete", "add"}

C4_MissingItemIsSuccess ==
    \A j \in 1..Len(calls) :
        (calls[j].call.op = "update" /\ calls[j].status = 404) =>
            /\ actions[calls[j].idx].action \in UpdateKinds
            /\ Len(action_results) >= calls[j].idx
            /\ action_results[calls[j].idx] = TRUE
            /\ idx > calls[j].idx
            /\ ~(send_pc = "failed" /\ j = Len(calls))

\* C4's case: a delete answered 404, followed by a further action, returned
\* all true.
C4_Witness ==
    /\ send_pc = "done"
    /\ Len(actions) = 2
    /\ actions[1].action = "delete"
    /\ calls[1].status = 404
    /\ Len(calls) = 2
    /\ send_response.action_results = <<TRUE, TRUE>>

\* The call the table of C5 gives for an action.
TableCall(action) ==
    CASE action.action = "archive" ->
           [op |-> "update", target |-> action.item_id,
            fields |-> [is_archived |-> TRUE]]
      [] action.action = "readd" ->
           [op |-> "update", target |-> action.item_id,
            fields |-> [is_archived |-> FALSE]]
      [] action.action = "favorite" ->
           [op |-> "update", target |-> action.item_id,
            fields |-> [is_marked |-> TRUE]]
      [] action.action = "unfavorite" ->
           [op |-> "update", target |-> action.item_id,
            fields |-> [is_marked |-> FALSE]]
      [] action.action = "delete" ->
           [op |-> "update", target |-> action.item_id,
            fields |-> [is_deleted |-> TRUE]]
      [] action.action = "add" ->
           [op |-> "create", target |-> action.url,
            fields |-> [url |-> action.url]]

\* The indices, in order, of the recognized actions among the first n.
RecognizedUpTo(n) ==
    SelectSeq([i \in 1..n |-> i],
              LAMBDA i : actions[i].action \in RecognizedKinds)

\* The number of actions the loop has started on.
StartedActions == IF send_pc \in {"awaiting", "failed"} THEN idx ELSE idx - 1

UpstreamError(c) ==
    \/ c.state = "transport error"
    \/ /\ c.state = "answered"
       /\ c.status \notin 200..299
       /\ ~(c.call.op = "update" /\ c.status = 404)

\* C11: when the backend call of action i fails with an upstream error the
\* batch stops there: the error propagates and no result list is returned,
\* no call is issued for an action after i, every call was attempted exactly
\* once, and the calls made for the actions before i stand, answered, with
\* nothing issued to undo them.
C11_UpstreamErrorStopsBatch ==
    send_pc # "idle" =>
        /\ \A j \in 1..Len(calls) :
             UpstreamError(calls[j]) => (send_pc = "failed" /\ j = Len(calls))
        /\ send_pc = "failed" =>
             /\ calls # <<>>
             /\ UpstreamError(calls[Len(calls)])
             /\ calls[Len(calls)].idx = idx
             /\ send_response = NoValue
             /\ Len(action_results) = idx - 1
             /\ Len(calls) = Len(RecognizedUpTo(idx))
             /\ \A j \in 1..Len(calls) :
                  /\ calls[j].idx = RecognizedUpTo(idx)[j]
                  /\ calls[j].call = TableCall(actions[calls[j].idx])
                  /\ j < Len(calls) =>
                       (calls[j].state = "answered" /\ ~UpstreamError(calls[j]))

\* C11's case: of three recognized actions the first was answered 2xx, the
\* second 500, and the third was never called.
C11_Witness ==
    /\ send_pc = "failed"
    /\ Len(actions) = 3
    /\ \A i \in 1..3 : actions[i].action \in RecognizedKinds
    /\ idx = 2
    /\ Len(calls) = 2
    /\ calls[1].status = 200
    /\ calls[2].state = "answered" /\ calls[2].status = 500
    /\ send_response = NoValue


(***************************************************************************)
(*            download: bookmark resolution, Readeck.bookmarks              *)
(***************************************************************************)
MaxLabels == 4
MaxPages == 2
MaxPerPage == 2

\* Host labels, rightmost first; a host is its list of labels, leftmost
\* first, so that host.split(".") and ".".join(parts) are the list itself.
LabelNames == <<"com", "example", "b", "a", "www", "m">>

HostOf(n) == [i \in 1..n |-> LabelNames[n - i + 1]]

Hosts == {HostOf(n) : n \in 1..MaxLabels}

\* The characters of a URL that decoding touches, as tokens.
UrlTokens == {"+", "%20", "%2B"}

\* urllib.parse.unquote: %XX becomes its character, anything else stays.
Unquote(url) ==
    [i \in 1..Len(url) |->
        CASE url[i] = "%20" -> " "
          [] url[i] = "%2B" -> "+"
          [] OTHER -> url[i]]

\* urllib.parse.unquote_plus: every "+" becomes a space, then unquote.
UnquotePlus(url) ==
    Unquote([i \in 1..Len(url) |-> IF url[i] = "+" THEN " " ELSE url[i]])

\* The while loop that builds sites_to_try.
RECURSIVE PopLeftmostUntilOne(_, _)
PopLeftmostUntilOne(parts, sites) ==
    IF Len(parts) > 1
    THEN PopLeftmostUntilOne(Tail(parts), Append(sites, Tail(parts)))
    ELSE sites

RECURSIVE PopLeftmost(_, _)
PopLeftmost(parts, sites) ==
    IF Len(parts) > 2
    THEN PopLeftmost(Tail(parts), Append(sites, Tail(parts)))
    ELSE sites

SitesToTryDownToTld(h) == PopLeftmostUntilOne(h, <<h>>)

SitesToTry(h) == PopLeftmost(h, <<h>>)

sites_to_try == SitesToTry(host)

\* unquote_plus(str(bookmark.url)) == requested_url
UrlMatches(bookmark) == UnquotePlus(bookmark.url) = UnquotePlus(requested_path)

\* A Link header: absent, or the links parse_header_links makes of it, each
\* with its url and its rel parameter ("" when the link has no rel).
Link(url, rel) == [url |-> url, rel |-> rel]

LinkHeaders ==
    {[present |-> FALSE, links |-> <<>>]}
    \cup {[present |-> TRUE, links |-> ls] : ls \in
            {<<>>,
             <<Link("u1", "prev")>>,
             <<Link("u1", "next")>>,
             <<Link("u1", "prev"), Link("u2", "next")>>,
             <<Link("u2", "next"), Link("u1", "prev")>>,
             <<Link("u1", "next"), Link("u2", "next")>>,
             <<Link("u1", "")>>,
             <<Link("u1", ""), Link("u2", "next")>>,
             <<Link("u2", "next"), Link("u1", "")>>}}

\* get_next_header_link: headers["link"] raises KeyError when the header is
\* absent; the generator expression reads ln["rel"] of each link in turn,
\* which raises KeyError on a link without rel, until the first rel == "next".
FirstWithRel(links, rel) ==
    IF \E i \in 1..Len(links) : links[i].rel = rel
    THEN CHOOSE i \in 1..Len(links) :
           links[i].rel = rel /\ \A j \in 1..(i - 1) : links[j].rel # rel
    ELSE Len(links) + 1

GetNextHeaderLink(h) ==
    IF ~h.present THEN [kind |-> "KeyError", url |-> NoValue]
    ELSE LET firstNext == FirstWithRel(h.links, "next")
             firstNoRel == FirstWithRel(h.links, "")
         IN  IF firstNoRel < firstNext
             THEN [kind |-> "KeyError", url |-> NoValue]
             ELSE IF firstNext <= Len(h.links)
                  THEN [kind |-> "url", url |-> h.links[firstNext].url]
                  ELSE [kind |-> "None", url |-> NoValue]

\* except Exception: log and continue with the next site.
ListingErrorPropagates ==
    /\ dl_pc' = "failed"
    /\ UNCHANGED site_i

ListingErrorSkipsSite ==
    /\ dl_pc' = "resolve"
    /\ site_i' = site_i + 1

InitDownload ==
    /\ host \in Hosts
    /\ requested_path \in [1..1 -> UrlTokens]
    /\ dl_pc = "resolve"
    /\ site_i = 1
    /\ bookmark_found = NoBookmark
    /\ bm_pc = "idle"
    /\ next_url = NoValue
    /\ page = <<>>
    /\ headers = NoHeaders
    /\ k = 0
    /\ n_pages = 0
    /\ yielded = <<>>
    /\ probed = <<>>
    /\ last_end = NoValue
    /\ article_calls = <<>>
    /\ GetIdle /\ SendIdle /\ RwIdle /\ CvIdle

\* for site in sites_to_try: readeck.bookmarks(site=site) is started.
DlStartSite ==
    /\ dl_pc = "resolve"
    /\ bm_pc = "idle"
    /\ site_i <= Len(sites_to_try)
    /\ probed' = Append(probed, sites_to_try[site_i])
    /\ next_url' = "/api/bookmarks"
    /\ n_pages' = 0
    /\ bm_pc' = "request"
    /\ UNCHANGED <<host, requested_path, dl_pc, site_i, bookmark_found, page,
                   headers, k, yielded, last_end, article_calls>>
    /\ UNCHANGED <<getVars, sendVars, rwVars, cvVars>>

\* while next_url: r = await client.get(next_url, params={"site": site})
BmRequest ==
    /\ bm_pc = "request"
    /\ next_url # NoValue
    /\ n_pages' = n_pages + 1
    /\ bm_pc' = "awaiting"
    /\ UNCHANGED <<host, requested_path, dl_pc, site_i, bookmark_found,
                   next_url, page, headers, k, yielded, probed, last_end,
                   article_calls>>
    /\ UNCHANGED <<getVars, sendVars, rwVars, cvVars>>

\* The response is 2xx: its entries are about to be yielded.  The backend
\* holds finitely many pages: the page numbered MaxPages leads to no other.
BmResponseOk ==
    /\ bm_pc = "awaiting"
    /\ \E urls \in SeqsUpTo(UrlTokens, MaxPerPage), h \in LinkHeaders :
         /\ n_pages = MaxPages => GetNextHeaderLink(h).kind # "url"
         /\ page' = [i \in 1..Len(urls) |->
                       [id |-> <<site_i, n_pages, i>>, url |-> <<urls[i]>>]]
         /\ headers' = h
    /\ k' = 1
    /\ yielded' = <<>>
    /\ bm_pc' = "yield"
    /\ UNCHANGED <<host, requested_path, dl_pc, site_i, bookmark_found,
                   next_url, n_pages, probed, last_end, article_calls>>
    /\ UNCHANGED <<getVars, sendVars, rwVars, cvVars>>

\* The request fails (transport error, or raise_for_status): the exception
\* leaves the generator and reaches the except clause of download.
BmResponseError ==
    /\ bm_pc = "awaiting"
    /\ bm_pc' = "idle"
    /\ last_end' = "http error"
    /\ ListingErrorSkipsSite
    /\ UNCHANGED <<host, requested_path, bookmark_found, next_url, page,
                   headers, k, n_pages, yielded, probed, article_calls>>
    /\ UNCHANGED <<getVars, sendVars, rwVars, cvVars>>

\* yield Bookmark(**entry), and the body of the async for in download.
DlYield ==
    /\ bm_pc = "yield"
    /\ k <= Len(page)
    /\ yielded' = Append(yielded, page[k])
    /\ IF UrlMatches(page[k])
       THEN /\ bookmark_found' = page[k]
            /\ dl_pc' = "found"
            /\ bm_pc' = "idle"
            /\ last_end' = "abandoned"
            /\ UNCHANGED k
       ELSE /\ k' = k + 1
            /\ UNCHANGED <<bookmark_found, dl_pc, bm_pc, last_end>>
    /\ UNCHANGED <<host, requested_path, site_i, next_url, page, headers,
                   n_pages, probed, article_calls>>
    /\ UNCHANGED <<getVars, sendVars, rwVars, cvVars>>

\* The page is used up and get_next_header_link gives the next URL.
BmNextPage ==
    /\ bm_pc = "yield"
    /\ k > Len(page)
    /\ GetNextHeaderLink(headers).kind = "url"
    /\ next_url' = GetNextHeaderLink(headers).url
    /\ bm_pc' = "request"
    /\ UNCHANGED <<host, requested_path, dl_pc, site_i, bookmark_found, page,
                   headers, k, n_pages, yielded, probed, last_end,
                   article_calls>>
    /\ UNCHANGED <<getVars, sendVars, rwVars, cvVars>>

\* The page is used up and get_next_header_link gives None: the generator
\* ends, bookmark_found is still None, the for loop goes to the next site.
BmEnd ==
    /\ bm_pc = "yield"
    /\ k > Len(page)
    /\ GetNextHeaderLink(headers).kind = "None"
    /\ next_url' = NoValue
    /\ bm_pc' = "idle"
    /\ last_end' = "exhausted"
    /\ site_i' = site_i + 1
    /\ UNCHANGED <<host, requested_path, dl_pc, bookmark_found, page, headers,
                   k, n_pages, yielded, probed, article_calls>>
    /\ UNCHANGED <<getVars, sendVars, rwVars, cvVars>>

\* The page is used up and get_next_header_link raises KeyError: the
\* exception leaves the generator and reaches the except clause of download.
BmLinkError ==
    /\ bm_pc = "yield"
    /\ k > Len(page)
    /\ GetNextHeaderLink(headers).kind = "KeyError"
    /\ bm_pc' = "idle"
    /\ last_end' = "KeyError"
    /\ ListingErrorSkipsSite
    /\ UNCHANGED <<host, requested_path, bookmark_found, next_url, page,
                   headers, k, n_pages, yielded, probed, article_calls>>
    /\ UNCHANGED <<getVars, sendVars, rwVars, cvVars>>

\* No site is left and bookmark_found is None: HTTPException(404).
DlNotFound ==
    /\ dl_pc = "resolve"
    /\ bm_pc = "idle"
    /\ site_i > Len(sites_to_try)
    /\ bookmark_found = NoBookmark
    /\ dl_pc' = "notfound"
    /\ UNCHANGED <<host, requested_path, site_i, bookmark_found, bm_pc,
                   next_url, page, headers, k, n_pages, yielded, probed,
                   last_end, article_calls>>
    /\ UNCHANGED <<getVars, sendVars, rwVars, cvVars>>

\* if bookmark_found: article = await readeck.bookmark_article(id)
DlArticleCall ==
    /\ dl_pc = "found"
    /\ bookmark_found # NoBookmark
    /\ article_calls' = Append(article_calls, bookmark_found.id)
    /\ dl_pc' = "article"
    /\ UNCHANGED <<host, requested_path, site_i, bookmark_found, bm_pc,
                   next_url, page, headers, k, n_pages, yielded, probed,
                   last_end>>
    /\ UNCHANGED <<getVars, sendVars, rwVars, cvVars>>

\* bookmark_article answered: the rewriting of the article starts (its
\* steps are those of SpecRewrite).
DlArticleOk ==
    /\ dl_pc = "article"
    /\ dl_pc' = "rewrite"
    /\ UNCHANGED <<host, requested_path, site_i, bookmark_found, bm_pc,
                   next_url, page, headers, k, n_pages, yielded, probed,
                   last_end, article_calls>>
    /\ UNCHANGED <<getVars, sendVars, rwVars, cvVars>>

\* bookmark_article raised: the request fails.
DlArticleFail ==
    /\ dl_pc = "article"
    /\ dl_pc' = "failed"
    /\ UNCHANGED <<host, requested_path, site_i, bookmark_found, bm_pc,
                   next_url, page, headers, k, n_pages, yielded, probed,
                   last_end, article_calls>>
    /\ UNCHANGED <<getVars, sendVars, rwVars, cvVars>>

NextDownload ==
    \/ DlStartSite
    \/ BmRequest
    \/ BmResponseOk
    \/ BmResponseError
    \/ DlYield
    \/ BmNextPage
    \/ BmEnd
    \/ BmLinkError
    \/ DlNotFound
    \/ DlArticleCall
    \/ DlArticleOk
    \/ DlArticleFail

SpecDownload == InitDownload /\ [][NextDownload]_vars

(***************************************************************************)
(* Claims about Readeck.bookmarks and the resolution in download.           *)
(***************************************************************************)
\* The response carries a next relation.
HasNextRel(h) == h.present /\ \E i \in 1..Len(h.links) : h.links[i].rel = "next"

NextRelUrls(h) == {h.links[i].url : i \in {j \in 1..Len(h.links) : h.links[j].rel = "next"}}

\* C6: bookmarks(site) yields the entries of a page in server order before
\* it requests the next page, requests the rel=next URL of the previous
\* response, and ends normally, without an error, as soon as a response
\* carries no next relation, be its Link header absent or made of other
\* relations only.
C6_AsStated ==
    /\ bm_pc = "yield" => yielded = SubSeq(page, 1, Len(yielded))
    /\ (bm_pc = "request" /\ n_pages >= 1) => yielded = page
    /\ (bm_pc = "awaiting" /\ n_pages >= 2) =>
          /\ yielded = page
          /\ next_url \in NextRelUrls(headers)
    /\ (bm_pc = "idle" /\ last_end \in {"exhausted", "KeyError"}) =>
          /\ yielded = page
          /\ ~HasNextRel(headers) => last_end = "exhausted"

\* The candidates C7 names: h, then h less its leftmost label, and so on
\* down to 2 labels; h alone when it has 2 labels or fewer.
ExpectedCandidates(h) ==
    [i \in 1..(IF Len(h) <= 2 THEN 1 ELSE Len(h) - 1) |-> SubSeq(h, i, Len(h))]

\* The resolution claim, given the URLs that count as equal to the requested
\* one once decoded.
ResolutionBy(equal) ==
    /\ Len(probed) <= Len(ExpectedCandidates(host))
    /\ \A i \in 1..Len(probed) : probed[i] = ExpectedCandidates(host)[i]
    /\ bm_pc # "idle" => Len(probed) = site_i
    /\ \A j \in 1..Len(yielded) :
         yielded[j].url \in equal => bookmark_found = yielded[j]
    /\ bookmark_found # NoBookmark =>
          /\ bookmark_found.url \in equal
          /\ yielded # <<>> /\ bookmark_found = yielded[Len(yielded)]
          /\ bookmark_found.id = <<site_i, n_pages, k>>
          /\ Len(probed) = site_i
          /\ bm_pc = "idle"

BookmarkUrls == [1..1 -> UrlTokens]

PercentDecodedEqual ==
    {url \in BookmarkUrls : Unquote(url) = Unquote(requested_path)}

PlusDecodedEqual ==
    {url \in BookmarkUrls : UnquotePlus(url) = UnquotePlus(requested_path)}

\* C7 as stated: the sites are probed in the order h, h less its leftmost
\* label, ... down to 2 labels; the resolved bookmark is the first listed
\* one whose percent-decoded URL equals the percent-decoded requested URL;
\* nothing is requested after the match.
C7_AsStated == dl_pc # "idle" => ResolutionBy(PercentDecodedEqual)

\* C7, amended: the same, where the two URLs are compared after
\* unquote_plus, which reads every "+" as a space and then percent-decodes:
\* "a+b" resolves to a bookmark "a%20b" and not to a bookmark "a%2Bb".
C7_Resolution == dl_pc # "idle" => ResolutionBy(PlusDecodedEqual)

\* C7's case: a.b.example.com, resolved at the third candidate, on its
\* second page, by a bookmark whose URL differs from the requested one as
\* written.
C7_Witness ==
    /\ host = <<"a", "b", "example", "com">>
    /\ probed = <<host, <<"b", "example", "com">>, <<"example", "com">>>>
    /\ bookmark_found # NoBookmark
    /\ bookmark_found.id = <<3, 2, 2>>
    /\ bookmark_found.url # requested_path

\* C8: an error raised while a candidate is listed does not fail the
\* request: the candidate is skipped and the next one is tried; with every
\* candidate used up and no match the request ends 404 "Article not found";
\* bookmark_article is called only for a bookmark that was found.
C8_ListingErrors ==
    dl_pc # "idle" =>
        /\ dl_pc = "failed" => (bookmark_found # NoBookmark /\ article_calls # <<>>)
        /\ (bm_pc = "idle" /\ last_end \in {"http error", "KeyError"}) =>
              /\ dl_pc \in {"resolve", "notfound"}
              /\ site_i = Len(probed) + 1
        /\ dl_pc = "notfound" =>
              /\ bookmark_found = NoBookmark
              /\ probed = ExpectedCandidates(host)
        /\ (bookmark_found = NoBookmark /\ site_i > Len(ExpectedCandidates(host))) =>
              dl_pc \in {"resolve", "notfound"}
        /\ IF bookmark_found = NoBookmark \/ dl_pc = "found"
           THEN article_calls = <<>>
           ELSE article_calls = <<bookmark_found.id>>

\* C8's case: the listing of the first candidate raised, and the second
\* candidate is being listed.
C8_Witness ==
    /\ dl_pc = "resolve"
    /\ last_end \in {"http error", "KeyError"}
    /\ site_i = 2
    /\ probed = <<host, Tail(host)>>
    /\ bm_pc = "awaiting"

(***************************************************************************)
(*                     download: the image rewriting                        *)
(***************************************************************************)
MaxNodes == 3

\* An article is its elements in document order.  img is a void element, so
\* the image elements are never nested; every other element is a "p".  An
\* element is [tag, src, marker]: src is NoValue without a src attribute,
\* marker is the i of a Comment("IMG_{i}") and -1 on any other node.
ImageSources == {"http://img/a.jpg", "http://img/b.jpeg", "http://img/c.png"}

Element(tag, src) == [tag |-> tag, src |-> src, marker |-> -1]

Elements ==
    {Element("p", NoValue)} \cup {Element("img", s) : s \in ImageSources \cup {NoValue}}

Articles == SeqsUpTo(Elements, MaxNodes)

\* Comment(f"IMG_{i}")
ImgCommentOneBased(i) == [tag |-> "comment", src |-> NoValue, marker |-> i + 1]

ImgComment(i) == [tag |-> "comment", src |-> NoValue, marker |-> i]

\* img.decompose() takes the element out of the tree.
Decomposed == [tag |-> "decomposed", src |-> NoValue, marker |-> -1]

\* src.endswith(".jpg") or src.endswith(".jpeg")
EndsWithJpeg(src) == src \in {"http://img/a.jpg", "http://img/b.jpeg"}

\* The src stored in images: the original one, or the convert-image URL
\* that quotes it.
ImageSrc(original_src) ==
    IF ~EndsWithJpeg(original_src) /\ convert_to_jpeg
    THEN [via |-> "/api/convert-image?url=", url |-> original_src]
    ELSE [via |-> "", url |-> original_src]

\* soup.find_all("img"), by position in document order.
FindAllImg(doc) ==
    SelectSeq([p \in 1..Len(doc) |-> p], LAMBDA p : doc[p].tag = "img")

\* str(soup): the elements left in the tree, in document order.
Serialize(doc) == SelectSeq(doc, LAMBDA e : e.tag # "decomposed")

\* str(i), the decimal numeral of i, is written i.
ImageEntry(i, src) == [image_id |-> i, item_id |-> i, src |-> src]

InitRewrite ==
    /\ convert_to_jpeg \in BOOLEAN
    /\ article \in Articles
    /\ soup = <<>>
    /\ imgs = <<>>
    /\ img_i = 0
    /\ images = <<>>
    /\ dl_response = NoValue
    /\ host = <<>> /\ requested_path = <<>> /\ dl_pc = "rewrite" /\ site_i = 0
    /\ bookmark_found = NoBookmark /\ bm_pc = "idle" /\ next_url = NoValue
    /\ page = <<>> /\ headers = NoHeaders /\ k = 0 /\ n_pages = 0
    /\ yielded = <<>> /\ probed = <<>> /\ last_end = NoValue
    /\ article_calls = <<>>
    /\ GetIdle /\ SendIdle /\ CvIdle

\* soup = BeautifulSoup(article); images = {}; soup.find_all("img")
RwParse ==
    /\ dl_pc = "rewrite"
    /\ soup' = article
    /\ images' = <<>>
    /\ imgs' = FindAllImg(article)
    /\ img_i' = 0
    /\ dl_pc' = "images"
    /\ UNCHANGED <<convert_to_jpeg, article, dl_response>>
    /\ UNCHANGED <<host, requested_path, site_i, bookmark_found, bm_pc,
                   next_url, page, headers, k, n_pages, yielded, probed,
                   last_end, article_calls>>
    /\ UNCHANGED <<getVars, sendVars, cvVars>>

\* Loop body, img.has_attr("src"): an images entry and a comment marker.
RwImage ==
    /\ dl_pc = "images"
    /\ img_i < Len(imgs)
    /\ LET p == imgs[img_i + 1] IN
         /\ soup[p].src # NoValue
         /\ images' = DictSet(images, img_i,
                              ImageEntry(img_i, ImageSrc(soup[p].src)))
         /\ soup' = [soup EXCEPT ![p] = ImgComment(img_i)]
    /\ img_i' = img_i + 1
    /\ UNCHANGED <<convert_to_jpeg, article, imgs, dl_response>>
    /\ UNCHANGED <<dlVars, getVars, sendVars, cvVars>>

\* Loop body, else branch: img.decompose().
RwNoSrc ==
    /\ dl_pc = "images"
    /\ img_i < Len(imgs)
    /\ LET p == imgs[img_i + 1] IN
         /\ soup[p].src = NoValue
         /\ soup' = [soup EXCEPT ![p] = Decomposed]
    /\ img_i' = img_i + 1
    /\ UNCHANGED <<convert_to_jpeg, article, imgs, images, dl_response>>
    /\ UNCHANGED <<dlVars, getVars, sendVars, cvVars>>

\* return {"images": images, "article": str(soup)}
RwReturn ==
    /\ dl_pc = "images"
    /\ img_i >= Len(imgs)
    /\ dl_response' = [images |-> images, article |-> Serialize(soup)]
    /\ dl_pc' = "done"
    /\ UNCHANGED <<convert_to_jpeg, article, soup, imgs, img_i, images>>
    /\ UNCHANGED <<host, requested_path, site_i, bookmark_found, bm_pc,
                   next_url, page, headers, k, n_pages, yielded, probed,
                   last_end, article_calls>>
    /\ UNCHANGED <<getVars, sendVars, cvVars>>

NextRewrite ==
    \/ RwParse
    \/ RwImage
    \/ RwNoSrc
    \/ RwReturn

SpecRewrite == InitRewrite /\ [][NextRewrite]_vars

(***************************************************************************)
(* Claims about the image rewriting.                                        *)
(***************************************************************************)
\* The number i of the image element at position p: the image elements
\* before it, with or without a source.
ImageNumber(p) == Cardinality({q \in 1..(p - 1) : article[q].tag = "img"})

\* What C9 has each element of the article become; Decomposed is left out.
Rewritten(p) ==
    IF article[p].tag # "img" THEN article[p]
    ELSE IF article[p].src # NoValue
         THEN [tag |-> "comment", src |-> NoValue, marker |-> ImageNumber(p)]
         ELSE Decomposed

ExpectedArticle ==
    SelectSeq([p \in 1..Len(article) |-> Rewritten(p)],
              LAMBDA e : e.tag # "decomposed")

SourcedImages == {p \in 1..Len(article) :
                    article[p].tag = "img" /\ article[p].src # NoValue}

Markers(doc) == {j \in 1..Len(doc) : doc[j].tag = "comment"}

PlaceholderWidth == 800
PlaceholderHeight == 600
JpegQuality == 85
ConvertedMaxAge == 3600
PlaceholderMaxAge == 300

SourceUrls == {"http://img/c.png", "http://img/d.webp", "no-such-scheme:x"}

SourceStatuses == {200, 302, 404, 500}

\* Pillow modes of a decodable body; "garbage" is a body Image.open rejects.
ImageModes == {"RGB", "RGBA", "P", "L"}

SourceBodies == ImageModes \cup {"garbage"}

\* What client.get can raise.
FetchErrors == {"ConnectError", "ReadTimeout", "UnsupportedProtocol"}

\* ImageFont.load_default(size=36), else load_default(), else None.
Fonts == {"default size 36", "default", "None"}

\* create_placeholder_image(message), for the font that could be loaded.
create_placeholder_image(message, font) ==
    [kind |-> "placeholder", format |-> "JPEG", quality |-> JpegQuality,
     width |-> PlaceholderWidth, height |-> PlaceholderHeight,
     color |-> "#ffffff", text |-> message, fill |-> "#666666", font |-> font]

\* img.save(img_buffer, format="JPEG", quality=85) of the source image.
EncodedJpeg(img) ==
    [kind |-> "converted", format |-> "JPEG", quality |-> JpegQuality,
     mode |-> img.mode, source |-> img.source]

\* except Exception: every error of fetch, decode and encode is one.
ExceptCatchesHttpOnly(error) ==
    error \in FetchErrors \cup {"HTTPStatusError"}

ExceptCatches(error) == TRUE

\* An exception is raised inside the try block.
Raise(error) ==
    /\ cv_error' = error
    /\ cv_pc' = IF ExceptCatches(error) THEN "except" ELSE "raised"

InitConvert ==
    /\ cv_url \in SourceUrls
    /\ cv_pc = "fetch"
    /\ cv_fetch = NoValue
    /\ cv_img = NoValue
    /\ cv_error = NoValue
    /\ cv_response = NoValue
    /\ GetIdle /\ SendIdle /\ DlIdle /\ RwIdle

\* response = await client.get(url) returns a response.
CvFetchOk ==
    /\ cv_pc = "fetch"
    /\ \E status \in SourceStatuses, body \in SourceBodies :
         cv_fetch' = [status |-> status, body |-> body]
    /\ cv_pc' = "status"
    /\ UNCHANGED <<cv_url, cv_img, cv_error, cv_response>>
    /\ UNCHANGED <<getVars, sendVars, dlVars, rwVars>>

\* client.get raises: transport error, timeout after 10 s, bad URL.
CvFetchError ==
    /\ cv_pc = "fetch"
    /\ \E error \in FetchErrors : Raise(error)
    /\ UNCHANGED <<cv_url, cv_fetch, cv_img, cv_response>>
    /\ UNCHANGED <<getVars, sendVars, dlVars, rwVars>>

\* response.raise_for_status()
CvRaiseForStatus ==
    /\ cv_pc = "status"
    /\ IF IsSuccess(cv_fetch.status)
       THEN cv_pc' = "decode" /\ UNCHANGED cv_error
       ELSE Raise("HTTPStatusError")
    /\ UNCHANGED <<cv_url, cv_fetch, cv_img, cv_response>>
    /\ UNCHANGED <<getVars, sendVars, dlVars, rwVars>>

\* img = Image.open(io.BytesIO(response.content))
CvDecode ==
    /\ cv_pc = "decode"
    /\ IF cv_fetch.body \in ImageModes
       THEN /\ cv_img' = [mode |-> cv_fetch.body, source |-> cv_url]
            /\ cv_pc' = "mode"
            /\ UNCHANGED cv_error
       ELSE /\ Raise("UnidentifiedImageError")
            /\ UNCHANGED cv_img
    /\ UNCHANGED <<cv_url, cv_fetch, cv_response>>
    /\ UNCHANGED <<getVars, sendVars, dlVars, rwVars>>

\* if img.mode != "RGB": img = img.convert("RGB")
CvConvertMode ==
    /\ cv_pc = "mode"
    /\ cv_img' = IF cv_img.mode # "RGB" THEN [cv_img EXCEPT !.mode = "RGB"]
                 ELSE cv_img
    /\ cv_pc' = "encode"
    /\ UNCHANGED <<cv_url, cv_fetch, cv_error, cv_response>>
    /\ UNCHANGED <<getVars, sendVars, dlVars, rwVars>>

\* img.save(...) succeeds: the Response with the long cache lifetime.
CvEncodeOk ==
    /\ cv_pc = "encode"
    /\ cv_response' = [content |-> EncodedJpeg(cv_img),
                       media_type |-> "image/jpeg",
                       max_age |-> ConvertedMaxAge]
    /\ cv_pc' = "done"
    /\ UNCHANGED <<cv_url, cv_fetch, cv_img, cv_error>>
    /\ UNCHANGED <<getVars, sendVars, dlVars, rwVars>>

\* img.save(...) raises.
CvEncodeError ==
    /\ cv_pc = "encode"
    /\ Raise("OSError")
    /\ UNCHANGED <<cv_url, cv_fetch, cv_img, cv_response>>
    /\ UNCHANGED <<getVars, sendVars, dlVars, rwVars>>

\* The except clause: the placeholder with the short cache lifetime.
CvPlaceholder ==
    /\ cv_pc = "except"
    /\ \E font \in Fonts :
         cv_response' =
             [content |-> create_placeholder_image("Image conversion failed", font),
              media_type |-> "image/jpeg",
              max_age |-> PlaceholderMaxAge]
    /\ cv_pc' = "done"
    /\ UNCHANGED <<cv_url, cv_fetch, cv_img, cv_error>>
    /\ UNCHANGED <<getVars, sendVars, dlVars, rwVars>>

NextConvert ==
    \/ CvFetchOk
    \/ CvFetchError
    \/ CvRaiseForStatus
    \/ CvDecode
    \/ CvConvertMode
    \/ CvEncodeOk
    \/ CvEncodeError
    \/ CvPlaceholder

SpecConvert == InitConvert /\ [][NextConvert]_vars

(***************************************************************************)
(* Claims about convert_image.                                              *)
(***************************************************************************)
\* C10: convert_image never lets an error out: after a transport error, a
\* timeout, a non-2xx status, an undecodable body or an encode error it
\* returns a JPEG response with the 800x600 placeholder and max-age=300; it
\* returns the re-encoded source image, with max-age=3600, only when fetch,
\* decode and encode all succeeded.
C10_NeverFailsVisibly ==
    /\ cv_pc # "raised"
    /\ cv_pc = "done" =>
         /\ cv_response.media_type = "image/jpeg"
         /\ cv_response.content.format = "JPEG"
         /\ IF cv_error # NoValue
            THEN /\ cv_response.content.kind = "placeholder"
                 /\ cv_response.content.width = 800
                 /\ cv_response.content.height = 600
                 /\ cv_response.max_age = 300
            ELSE /\ cv_response.content.kind = "converted"
                 /\ cv_response.content.source = cv_url
                 /\ cv_response.max_age = 3600
                 /\ cv_fetch.status \in 200..299
                 /\ cv_fetch.body # "garbage"

\* C10's case: the source answered 2xx with a body that does not decode,
\* and the placeholder was returned.
C10_Witness ==
    /\ cv_pc = "done"
    /\ cv_error = "UnidentifiedImageError"
    /\ cv_response.content.kind = "placeholder"
    /\ cv_response.max_age = 300

=============================================================================
